---- MODULE Spec2Model ----
(***************************************************************************)
(* A model of the PDF acquisition-and-extraction pipeline of academic-mcp  *)
(* (src/src/index.ts): the tool handler's download_pdf, read_pdf_text,     *)
(* download_and_read_pdf, list_downloaded_pdfs and cleanup_downloads       *)
(* cases and the PDFUtils methods they call.                               *)
(*                                                                         *)
(* Strings are sequences of one-character strings.  A request runs from    *)
(* one suspension point (await) to the next in one atomic step, as the     *)
(* single-threaded event loop runs it; requests of different slots         *)
(* interleave at those points.                                             *)
(***************************************************************************)
EXTENDS Integers, Sequences, FiniteSets, TLC

\* ------------------------------------------------------------------ bounds

\* The largest page count of a document a server may return.
MaxPages == 3

\* ---------------------------------------------------------------- strings

\* "" and an absent (undefined) string argument: both are falsy in the code.
NoName == <<>>

Min(a, b) == IF a <= b THEN a ELSE b

Max(a, b) == IF a >= b THEN a ELSE b

\* s has sub at position i.
HasAt(s, sub, i) ==
    /\ i >= 1
    /\ i + Len(sub) - 1 <= Len(s)
    /\ SubSeq(s, i, i + Len(sub) - 1) = sub

\* String.prototype.includes
Includes(s, sub) == \E i \in 1..(Len(s) + 1) : HasAt(s, sub, i)

\* String.prototype.indexOf, 1-based; 0 when absent.
IndexOf(s, sub) ==
    IF Includes(s, sub)
    THEN CHOOSE i \in 1..(Len(s) + 1) :
            /\ HasAt(s, sub, i)
            /\ \A j \in 1..(i - 1) : ~HasAt(s, sub, j)
    ELSE 0

\* String.prototype.endsWith
EndsWith(s, suf) == HasAt(s, suf, Len(s) - Len(suf) + 1)

\* String.prototype.replace with a string pattern: the first occurrence only.
ReplaceFirst(s, sub, rep) ==
    LET i == IndexOf(s, sub)
    IN  IF i = 0 THEN s
        ELSE SubSeq(s, 1, i - 1) \o rep \o SubSeq(s, i + Len(sub), Len(s))

\* s.split(sep) for a one-character sep: the last element.
LastPart(s, sep) ==
    LET at == {i \in 1..Len(s) : s[i] = sep}
    IN  IF at = {} THEN s
        ELSE LET m == CHOOSE i \in at : \A j \in at : j <= i
             IN  SubSeq(s, m + 1, Len(s))

\* s.replace(/[_-]/g, ' ')
SpaceOut(s) == [i \in 1..Len(s) |-> IF s[i] \in {"_", "-"} THEN " " ELSE s[i]]

\* s.replace(/\.pdf$/, '')
StripPdfSuffix(s) ==
    IF EndsWith(s, <<".","p","d","f">>) THEN SubSeq(s, 1, Len(s) - 4) ELSE s

\* The characters /[a-zA-Z0-9._-]/ keeps.
SafeChars ==
    {"a","b","c","d","e","f","g","h","i","j","k","l","m","n","o","p","q","r",
     "s","t","u","v","w","x","y","z","A","B","C","D","E","F","G","H","I","J",
     "K","L","M","N","O","P","Q","R","S","T","U","V","W","X","Y","Z","0","1",
     "2","3","4","5","6","7","8","9",".","_","-"}

\* A sanitizer that keeps every character.
SanitizeWrong(s) == s

\* filename.replace(/[^a-zA-Z0-9._-]/g, '_')
Sanitize(s) == [i \in 1..Len(s) |-> IF s[i] \in SafeChars THEN s[i] ELSE "_"]

\* pdfUrl.match(/arxiv\.org\/pdf\/([^\/]+)/)?.[1] || 'unknown'
ArxivId(url) ==
    LET lit  == <<"a","r","x","i","v",".","o","r","g","/","p","d","f","/">>
        ok(i) == /\ HasAt(url, lit, i)
                 /\ i + Len(lit) <= Len(url)
                 /\ url[i + Len(lit)] # "/"
        hits == {i \in 1..Len(url) : ok(i)}
    IN  IF hits = {} THEN <<"u","n","k","n","o","w","n">>
        ELSE LET i    == CHOOSE h \in hits : \A g \in hits : h <= g
                 from == i + Len(lit)
                 stop == {j \in from..Len(url) : url[j] = "/"}
                 to   == IF stop = {} THEN Len(url)
                         ELSE (CHOOSE j \in stop : \A k \in stop : j <= k) - 1
             IN  SubSeq(url, from, to)

\* --------------------------------------------------- download: pure parts

\* isValidPDF on the bytes of a file: buffer.toString('ascii', 0, 4) unsets
\* the highest bit of every byte before it compares with '%PDF'.
AsciiDecode(bytes) == [i \in 1..Len(bytes) |-> bytes[i] % 128]

\* '%PDF' as character codes.
PdfMagic == <<37, 80, 68, 70>>

\* isValidPDF: files maps the names of the directory to their contents; a
\* file that cannot be read (here: is absent) is rejected by the catch.
isValidPDF(files, name) ==
    IF name \notin DOMAIN files THEN FALSE
    ELSE LET buffer == files[name].bytes
         IN  /\ Len(buffer) >= 4
             /\ SubSeq(AsciiDecode(buffer), 1, 4) = PdfMagic

paywalledDomains ==
    { <<"s","c","h","o","l","a","r",".","g","o","o","g","l","e",".","c","o","m">>,
      <<"s","c","i","e","n","c","e","d","i","r","e","c","t",".","c","o","m">>,
      <<"i","e","e","e",".","o","r","g">>,
      <<"a","c","m",".","o","r","g">>,
      <<"s","p","r","i","n","g","e","r",".","c","o","m">>,
      <<"w","i","l","e","y",".","c","o","m">>,
      <<"t","a","n","d","f","o","n","l","i","n","e",".","c","o","m">>,
      <<"s","a","g","e","p","u","b",".","c","o","m">>,
      <<"t","a","y","l","o","r","f","r","a","n","c","i","s",".","c","o","m">>,
      <<"e","m","e","r","a","l","d",".","c","o","m">>,
      <<"j","s","t","o","r",".","o","r","g">> }

\* A heuristic that matches every URL.
isPaywalledSourceWrong(url) == TRUE

isPaywalledSource(url) == \E domain \in paywalledDomains : Includes(url, domain)

\* The filename of lines 641-664: derived from the URL when no filename is
\* given, then the .pdf extension, then sanitized.  now is Date.now() in digits.
ResolveFilename(url, filename, now) ==
    LET dotpdf == <<".","p","d","f">>
        base   == LastPart(url, "/")
        derived ==
            IF Includes(base, <<"a","r","x","i","v",".","o","r","g">>)
            THEN <<"a","r","x","i","v","_">> \o ArxivId(url)
            ELSE IF Includes(base, <<"s","c","h","o","l","a","r",".","g","o","o","g","l","e">>)
            THEN <<"s","c","h","o","l","a","r","_">> \o now
            ELSE LET r == ReplaceFirst(base, dotpdf, <<>>)
                 IN  IF r = <<>> THEN <<"p","a","p","e","r","_">> \o now ELSE r
        f1 == IF filename = NoName THEN derived \o dotpdf ELSE filename
        f2 == IF EndsWith(f1, dotpdf) THEN f1 ELSE f1 \o dotpdf
    IN  Sanitize(f2)

\* new URL(url) succeeds: the string has a scheme.
ValidUrl(url) == IndexOf(url, <<":">>) > 1

\* The query string of a URL: after the first "?", before a "#".
QueryOf(url) ==
    LET q == IndexOf(url, <<"?">>)
    IN  IF q = 0 THEN <<>>
        ELSE LET rest == SubSeq(url, q + 1, Len(url))
                 h    == IndexOf(rest, <<"#">>)
             IN  IF h = 0 THEN rest ELSE SubSeq(rest, 1, h - 1)

\* The value of a name=value pair, "+" read as a space as searchParams does
\* (the URLs of the model hold no percent escapes).
PairValue(pair) ==
    LET e == IndexOf(pair, <<"=">>)
        v == IF e = 0 THEN <<>> ELSE SubSeq(pair, e + 1, Len(pair))
    IN  [i \in 1..Len(v) |-> IF v[i] = "+" THEN " " ELSE v[i]]

PairName(pair) ==
    LET e == IndexOf(pair, <<"=">>)
    IN  IF e = 0 THEN pair ELSE SubSeq(pair, 1, e - 1)

\* urlObj.searchParams.get(key): the value of the first pair named key;
\* <<>> (falsy, like null) when there is none.
RECURSIVE SearchParam(_, _)
SearchParam(query, key) ==
    IF query = <<>> THEN <<>>
    ELSE LET a    == IndexOf(query, <<"&">>)
             pair == IF a = 0 THEN query ELSE SubSeq(query, 1, a - 1)
             rest == IF a = 0 THEN <<>> ELSE SubSeq(query, a + 1, Len(query))
         IN  IF PairName(pair) = key THEN PairValue(pair)
             ELSE SearchParam(rest, key)

\* extractTitleFromUrl; <<>> stands for null.
extractTitleFromUrl(url, filename) ==
    LET cleanFilename == SpaceOut(StripPdfSuffix(filename))
        t  == SearchParam(QueryOf(url), <<"t","i","t","l","e">>)
        q  == SearchParam(QueryOf(url), <<"q">>)
        qy == SearchParam(QueryOf(url), <<"q","u","e","r","y">>)
        titleParam == IF t # <<>> THEN t ELSE IF q # <<>> THEN q ELSE qy
        lastPart == LastPart(url, "/")
    IN  IF filename # NoName /\ Len(cleanFilename) > 10 THEN cleanFilename
        ELSE IF ValidUrl(url) /\ titleParam # <<>> THEN titleParam
        ELSE IF Len(lastPart) > 10 /\ ~Includes(lastPart, <<".">>)
             THEN SpaceOut(lastPart)
        ELSE <<>>

\* ------------------------------------------------------------------ inputs

Procs == {1, 2}

\* The slots that serve every call with every argument.  The other slot
\* serves the concurrent calls that change the directory, a download_pdf of
\* UrlPlain under either name and cleanup_downloads: a call meets another
\* call only through the files that one writes and deletes.
Readers == {1}

\* http://a.org/p.pdf : no paywalled domain
UrlPlain == <<"h","t","t","p",":","/","/","a",".","o","r","g","/","p",".","p","d","f">>

\* http://acm.org/p.pdf : paywalled, no title in the URL
UrlPay == <<"h","t","t","p",":","/","/","a","c","m",".","o","r","g","/","p",".","p","d","f">>

\* http://arxiv.org/pdf/2301.1 : the PDF link an index entry carries
UrlArxiv ==
    <<"h","t","t","p",":","/","/","a","r","x","i","v",".","o","r","g","/",
      "p","d","f","/","2","3","0","1",".","1">>

\* http://ieee.org/x.pdf : a PDF link of an index entry, on a paywalled domain
UrlMirror == <<"h","t","t","p",":","/","/","i","e","e","e",".","o","r","g","/","x",".","p","d","f">>

\* https://arxiv.org/pdf/2301.00001
UrlArxivPaper ==
    <<"h","t","t","p","s",":","/","/","a","r","x","i","v",".","o","r","g","/",
      "p","d","f","/","2","3","0","1",".","0","0","0","0","1">>

\* http://acm.org/deep_learning.pdf : paywalled, no title, q or query
\* parameter, a final path segment with a dot
UrlPayLong ==
    <<"h","t","t","p",":","/","/","a","c","m",".","o","r","g","/",
      "d","e","e","p","_","l","e","a","r","n","i","n","g",".","p","d","f">>

URLs == {UrlPlain, UrlPay}

\* The URLs of a download that runs alone.
\* http://a.org/p.pdf?v=1 : a final path segment with a query string
UrlQuery ==
    <<"h","t","t","p",":","/","/","a",".","o","r","g","/","p",".","p","d","f",
      "?","v","=","1">>

AnyURLs == {UrlPlain, UrlPay, UrlPayLong, UrlArxiv, UrlArxivPaper, UrlQuery}

\* The href of the application/pdf link of the first entry the index returns.
ResolverUrls == {UrlArxiv, UrlMirror}

URLsOf(p) == IF p \in Readers THEN URLs ELSE {UrlPlain}

\* What an index query of findPaperOnArxiv brings: the request or the parse
\* of its answer fails; the feed has no entry; or the feed has entries, href
\* being the href of the application/pdf link of the first one (<<>>: it has
\* no such link).
QueryFailed == [kind |-> "failed", href |-> <<>>]

NoEntries == [kind |-> "none", href |-> <<>>]

Entry(href) == [kind |-> "entry", href |-> href]

QueryOutcomes == {QueryFailed, NoEntries, Entry(<<>>)} \cup {Entry(h) : h \in ResolverUrls}

\* Filename hints of a caller: none, "my_paper_title".
Hints == {NoName, <<"m","y","_","p","a","p","e","r","_","t","i","t","l","e">>}

\* Hints with characters a file name must not keep: ../e and a/b c.pdf
AnyHints ==
    Hints \cup {<<".",".","/","e">>, <<"a","/","b"," ","c",".","p","d","f">>}

\* Date.now(), in digits.
Now == {<<"1","7">>}

\* The characters of a page's extracted text, for a short and for a long page.
SmallPage == 1000

HugePage == 90000

\* The largest chunkSize argument of a chunked read.
MaxChunk == 3

\* chunkSize arguments: zero, one, and one above the two the handler starts at.
ChunkSizes == {0, 1, MaxChunk}

\* startPage and endPage arguments; 0 also stands for an omitted argument
\* of read_pdf_text, which the code treats alike (startPage || 1, endPage ? :).
PageArgs == {0}

\* The page arguments of a read that runs alone: from below the first page
\* to above the last.
AnyPageArgs == (0 - 1)..(MaxPages + 1)

\* The path a caller reads: p.pdf, the name of a download without a hint.
ReadPaths == { <<"p",".","p","d","f">> }

\* What a server may send: bytes, and what pdfjs makes of them (ok: the
\* document loads; pages: numPages; plen: the length of each page's text).
Html == [bytes |-> <<60, 104, 116, 109, 108>>, ok |-> FALSE, pages |-> 0, plen |-> 0]

\* "%PDF-" with the highest bit of the first byte set.
HiBit == [bytes |-> <<165, 80, 68, 70, 45>>, ok |-> FALSE, pages |-> 0, plen |-> 0]

Doc(n, l) == [bytes |-> <<37, 80, 68, 70, 45>>, ok |-> TRUE, pages |-> n, plen |-> l]

Bodies == {Html, HiBit, Doc(1, HugePage), Doc(MaxPages, SmallPage)}

\* ------------------------------------------------------------------- state

VARIABLES
    dir,    \* the storage directory: file name -> contents
    call,   \* per request slot: the tool call being served
    pc,     \* per request slot: the suspension point the call waits at
    loc,    \* per request slot: the local variables of the call
    res     \* per request slot: the response of the finished call

vars == <<dir, call, pc, loc, res>>

NoError == [msg |-> <<>>, hop |-> 0, path |-> <<>>]

\* What fs.existsSync and fs.readFileSync give for an absent file.
Missing == [exists |-> FALSE, ok |-> FALSE, pages |-> 0, plen |-> 0, by |-> 0]

NoCall ==
    [name |-> "none", pdfUrl |-> <<>>, filename |-> NoName, filepath |-> <<>>,
     startPage |-> 0, endPage |-> 0, chunked |-> FALSE, chunkSize |-> 0]

\* fetches, queries, outcomes and fetched are history: the GETs for a PDF
\* and the index queries the call has issued, what the index queries
\* brought, and the bytes the last GET brought.
NoLoc ==
    [url |-> <<>>, filename |-> NoName, isRetry |-> FALSE, error |-> NoError,
     title |-> <<>>, fetches |-> 0, queries |-> 0, outcomes |-> <<>>, fetched |-> <<>>,
     filepath |-> <<>>, currentChunkSize |-> 0, round |-> 0, snap |-> Missing,
     totalPages |-> 0, startPage |-> 0, endPage |-> 0, chunks |-> <<>>]

\* wrote is history: the files in the directory, when the call ended, that
\* the call had written, each with the attempt that wrote it.
NoRes ==
    [isError |-> FALSE, error |-> NoError, out |-> [action |-> "none"], wrote |-> {}]

\* The files of the directory that the call in progress of slot p wrote.
WrittenBy(files, p) ==
    {[name |-> n, hop |-> files[n].hop] : n \in {m \in DOMAIN files : files[m].by = p}}

\* A write that leaves an existing file as it is.
WriteFileWrong(files, name, content) ==
    IF name \in DOMAIN files THEN files
    ELSE [n \in DOMAIN files \cup {name} |-> IF n = name THEN content ELSE files[n]]

\* The directory with name holding content (fs.writeFileSync).
WriteFile(files, name, content) ==
    [n \in DOMAIN files \cup {name} |-> IF n = name THEN content ELSE files[n]]

\* An unlink that is left out.
UnlinkWrong(files, name) == files

\* The directory without name (fs.unlinkSync).
Unlink(files, name) == [n \in DOMAIN files \ {name} |-> files[n]]

\* by and hop are history, not file data: the slot whose call in progress
\* wrote the file, and whether its fallback attempt did.  When the call of
\* slot p ends, its files are no longer those of a call in progress.
Disown(files, p) ==
    [n \in DOMAIN files |->
        IF files[n].by = p THEN [files[n] EXCEPT !.by = 0, !.hop = 0] ELSE files[n]]

\* fs.existsSync(filepath) and fs.readFileSync(filepath): what the reader
\* works on from here, whatever happens to the file meanwhile.
Snapshot(files, filepath) ==
    IF filepath \in DOMAIN files
    THEN [exists |-> TRUE, ok |-> files[filepath].ok, pages |-> files[filepath].pages,
          plen |-> files[filepath].plen, by |-> files[filepath].by]
    ELSE Missing

Init ==
    /\ dir = <<>>
    /\ call = [p \in Procs |-> NoCall]
    /\ pc = [p \in Procs |-> "idle"]
    /\ loc = [p \in Procs |-> NoLoc]
    /\ res = [p \in Procs |-> NoRes]

\* Slot p serves no call: it has served none yet, or has sent the response
\* of its last one (res[p] keeps it until the next call arrives).
Idle(p) == pc[p] \in {"idle", "done"}

\* The handler returns the success payload out, the directory being files.
Returns(p, files, out) ==
    /\ pc' = [pc EXCEPT ![p] = "done"]
    /\ res' = [res EXCEPT ![p] =
                 [isError |-> FALSE, error |-> NoError, out |-> out,
                  wrote |-> WrittenBy(files, p)]]
    /\ dir' = Disown(files, p)

\* An error that is not turned into the error marker.
FailsWrong(p, files, error) ==
    /\ pc' = [pc EXCEPT ![p] = "done"]
    /\ res' = [res EXCEPT ![p] =
                 [isError |-> FALSE, error |-> error, out |-> [action |-> "none"],
                  wrote |-> WrittenBy(files, p)]]
    /\ dir' = Disown(files, p)

\* The handler's catch (lines 568-578): the error marker with the message.
Fails(p, files, error) ==
    /\ pc' = [pc EXCEPT ![p] = "done"]
    /\ res' = [res EXCEPT ![p] =
                 [isError |-> TRUE, error |-> error, out |-> [action |-> "none"],
                  wrote |-> WrittenBy(files, p)]]
    /\ dir' = Disown(files, p)

\* new Error(`${prefix}: ${error.message}`)
Wrap(prefix, error) == [error EXCEPT !.msg = <<prefix>> \o error.msg]

\* -------------------------------------------------- page extractor: pure

\* The characters of `--- Page N ---\n` (line 863), N below 10.
MarkerLen == 15

\* <<a, a+1, ..., b>>; empty when b < a.
PageSeq(a, b) == IF b < a THEN <<>> ELSE [i \in 1..(b - a + 1) |-> a + i - 1]

\* The text of no page: textParts.join of an empty array.
NoText == [pages |-> <<>>, plen |-> 0, by |-> 0, of |-> 0]

\* readPDFText (lines 818-872) on the bytes snap it read from filepath: the
\* result is the pages whose marker and text the string holds, in order
\* (plen: the length of each page's text; by, of: whose bytes they are, and
\* the page count of the document read).
\* An absent or zero startPage or endPage takes the default (||).
\* getPage rejects a page number below 1.
readPDFText(snap, filepath, startPage, endPage) ==
    LET totalPages == snap.pages
        start == IF startPage = 0 THEN 1 ELSE startPage
        end   == IF endPage = 0 THEN totalPages ELSE endPage
        last  == Min(end, totalPages)
        fail(cause) ==
            [ok |-> FALSE, text |-> NoText,
             error |-> [msg |-> <<"Failed to read PDF", cause>>, hop |-> 0,
                        path |-> filepath]]
    IN  IF ~snap.exists THEN fail("PDF file not found")
        ELSE IF ~snap.ok THEN fail("Invalid PDF structure")
        ELSE IF start <= last /\ start < 1 THEN fail("Invalid page request")
        ELSE [ok |-> TRUE, error |-> NoError,
              text |-> [pages |-> PageSeq(start, last), plen |-> snap.plen,
                        by |-> snap.by, of |-> snap.pages]]

\* getPDFPageCount (lines 914-928) on the bytes snap.
getPDFPageCount(snap, filepath) ==
    LET fail(cause) ==
            [ok |-> FALSE, numPages |-> 0,
             error |-> [msg |-> <<"Failed to get PDF page count", cause>>,
                        hop |-> 0, path |-> filepath]]
    IN  IF ~snap.exists THEN fail("PDF file not found")
        ELSE IF ~snap.ok THEN fail("Invalid PDF structure")
        ELSE [ok |-> TRUE, error |-> NoError, numPages |-> snap.pages]

\* text.length: every page is its marker and its text, joined by "\n\n".
TextLength(text) ==
    IF text.pages = <<>> THEN 0
    ELSE Len(text.pages) * (MarkerLen + text.plen) + 2 * (Len(text.pages) - 1)

\* The length of the text as a JSON string: every newline takes two characters.
JsonTextLength(text) ==
    IF text.pages = <<>> THEN 0
    ELSE Len(text.pages) * (MarkerLen + 1 + text.plen) + 4 * (Len(text.pages) - 1)

\* ----------------------------------------------------- chunked read_pdf_text

\* const maxTokens = 15000 (line 401)
maxTokens == 15000

\* text.substring(0, 80000) (line 456)
TruncateAt == 80000

\* JSON.stringify(response, null, 2).length (line 420): the characters around
\* the chunks, and around the text of each chunk.
EnvelopeLen == 130

ChunkEnvelopeLen == 90

RECURSIVE SumJson(_)
SumJson(chunks) ==
    IF chunks = <<>> THEN 0
    ELSE ChunkEnvelopeLen + JsonTextLength(Head(chunks).text) + SumJson(Tail(chunks))

JsonLength(response) == EnvelopeLen + SumJson(response.chunks)

\* estimatedTokens <= maxTokens, estimatedTokens being responseText.length / 4.
FitsBudgetWrong(response) == TRUE

FitsBudget(response) == JsonLength(response) <= 4 * maxTokens

\* The page range of the chunk that starts at startPage (lines 894-895).
ChunkEndWrong(startPage, chunkSize, totalPages) == Min(startPage + chunkSize, totalPages)

ChunkEnd(startPage, chunkSize, totalPages) == Min(startPage + chunkSize - 1, totalPages)

\* The response of lines 406-418 for the chunks readPDFTextChunked returned;
\* asked is history: the ranges readPDFTextChunked passed to readPDFText.
ChunkedResponse(filepath, currentChunkSize, totalPages, chunks) ==
    [action |-> "read_pdf_text", filepath |-> filepath, chunked |-> TRUE,
     totalPages |-> totalPages, chunkSize |-> currentChunkSize,
     chunks |-> [i \in 1..Len(chunks) |->
                    \* index is i - 1
                    [chunkIndex |-> i - 1,
                     startPage |-> (i - 1) * currentChunkSize + 1,
                     endPage |-> Min(i * currentChunkSize, totalPages),
                     text |-> chunks[i].text]],
     asked |-> [i \in 1..Len(chunks) |->
                    [startPage |-> chunks[i].startPage, endPage |-> chunks[i].endPage]]]

\* Math.max(1, Math.floor(currentChunkSize / 2)) (lines 437, 441)
Halved(currentChunkSize) == Max(1, currentChunkSize \div 2)

\* The head of the while loop (line 403) with currentChunkSize: the call of
\* readPDFTextChunked, which reads the file and awaits the document; or,
\* after the loop, the call of readPDFText(filepath, 1, 1) (line 446).
LoopTop(p, l, currentChunkSize) ==
    /\ loc' = [loc EXCEPT ![p] =
                 [l EXCEPT !.currentChunkSize = currentChunkSize,
                           !.round = 1 - l.round,
                           !.snap = Snapshot(dir, l.filepath),
                           !.totalPages = 0, !.startPage = 0, !.endPage = 0,
                           !.chunks = <<>>]]
    /\ pc' = [pc EXCEPT ![p] = IF currentChunkSize > 0 THEN "open" ELSE "fallback"]
    /\ UNCHANGED <<dir, res>>

\* read_pdf_text with chunked = true arrives (lines 389-403).
StartReadChunked(p) ==
    /\ Idle(p)
    /\ p \in Readers
    /\ \E filepath \in ReadPaths, chunkSize \in ChunkSizes :
          /\ call' = [call EXCEPT ![p] =
                        [NoCall EXCEPT !.name = "read_pdf_text", !.filepath = filepath,
                                       !.chunked = TRUE, !.chunkSize = chunkSize]]
          /\ loc' = [loc EXCEPT ![p] =
                       [NoLoc EXCEPT !.filepath = filepath,
                                     !.currentChunkSize = Min(chunkSize, 2),
                                     !.snap = Snapshot(dir, filepath)]]
          /\ pc' = [pc EXCEPT ![p] = IF Min(chunkSize, 2) > 0 THEN "open" ELSE "fallback"]
    /\ res' = [res EXCEPT ![p] = NoRes]
    /\ UNCHANGED dir

\* The catch of the loop body (lines 439-442), and the "too large" branch
\* (line 437): a smaller chunk size, and the loop again.
Retry(p) ==
    /\ LoopTop(p, loc[p], Halved(loc[p].currentChunkSize))
    /\ UNCHANGED call

\* The document of readPDFTextChunked loads or fails (lines 877-896); when
\* it loads, the first chunk's readPDFText reads the file.
OpenDone(p) ==
    /\ pc[p] = "open"
    /\ LET l == loc[p]
       IN  IF ~l.snap.exists \/ ~l.snap.ok \/ l.snap.pages = 0
           THEN Retry(p)
           ELSE /\ loc' = [loc EXCEPT ![p] =
                            [l EXCEPT !.totalPages = l.snap.pages,
                                      !.startPage = 1,
                                      !.endPage = ChunkEnd(1, l.currentChunkSize, l.snap.pages),
                                      !.snap = Snapshot(dir, l.filepath)]]
                /\ pc' = [pc EXCEPT ![p] = "chunk"]
                /\ UNCHANGED <<dir, call, res>>

\* The readPDFText of a chunk ends (line 896).  A failure is rethrown to the
\* handler's loop.  Otherwise the chunk is pushed and the next chunk's
\* readPDFText reads the file; after the last chunk the handler builds the
\* response (lines 406-437) and returns it if it fits.
ChunkDone(p) ==
    /\ pc[p] = "chunk"
    /\ LET l == loc[p]
           r == readPDFText(l.snap, l.filepath, l.startPage, l.endPage)
           chunks == Append(l.chunks,
                            [startPage |-> l.startPage, endPage |-> l.endPage,
                             text |-> r.text])
           next == l.startPage + l.currentChunkSize
           response == ChunkedResponse(l.filepath, l.currentChunkSize,
                                       l.totalPages, chunks)
       IN  IF ~r.ok THEN Retry(p)
           ELSE IF next <= l.totalPages
           THEN /\ loc' = [loc EXCEPT ![p] =
                            [l EXCEPT !.chunks = chunks,
                                      !.startPage = next,
                                      !.endPage = ChunkEnd(next, l.currentChunkSize,
                                                           l.totalPages),
                                      !.snap = Snapshot(dir, l.filepath)]]
                /\ UNCHANGED <<dir, call, pc, res>>
           ELSE IF FitsBudget(response)
           THEN /\ Returns(p, dir, response)
                /\ loc' = [loc EXCEPT ![p].chunks = chunks]
                /\ UNCHANGED call
           ELSE Retry(p)

\* readPDFText(filepath, 1, 1) after the loop ends (lines 446-462).
FallbackDone(p) ==
    /\ pc[p] = "fallback"
    /\ LET l == loc[p]
           r == readPDFText(l.snap, l.filepath, 1, 1)
       IN  IF ~r.ok THEN Fails(p, dir, r.error)
           ELSE Returns(p, dir,
                        [action |-> "read_pdf_text", filepath |-> l.filepath,
                            chunked |-> FALSE, startPage |-> 1, endPage |-> 1,
                            text |-> r.text,
                            length |-> Min(TextLength(r.text), TruncateAt),
                            truncated |-> TextLength(r.text) > TruncateAt])
    /\ UNCHANGED <<call, loc>>

\* ------------------------------------------------- non-chunked read_pdf_text

\* read_pdf_text with chunked = false arrives: getPDFPageCount reads the file
\* (lines 464-465).
StartReadWith(p, pageArgs) ==
    /\ Idle(p)
    /\ p \in Readers
    /\ \E filepath \in ReadPaths, startPage \in pageArgs, endPage \in pageArgs :
          /\ call' = [call EXCEPT ![p] =
                        [NoCall EXCEPT !.name = "read_pdf_text", !.filepath = filepath,
                                       !.startPage = startPage, !.endPage = endPage,
                                       !.chunkSize = 10]]
          /\ loc' = [loc EXCEPT ![p] =
                       [NoLoc EXCEPT !.filepath = filepath,
                                     !.snap = Snapshot(dir, filepath)]]
    /\ pc' = [pc EXCEPT ![p] = "count"]
    /\ res' = [res EXCEPT ![p] = NoRes]
    /\ UNCHANGED dir

StartRead(p) == StartReadWith(p, PageArgs)

\* getPDFPageCount ends; the handler fixes the range and readPDFText reads
\* the file (read_pdf_text: lines 465-469; download_and_read_pdf: 502-508).
CountDone(p) ==
    /\ pc[p] = "count"
    /\ LET l == loc[p]
           c == getPDFPageCount(l.snap, l.filepath)
           totalPages == c.numPages
           isRead == call[p].name = "read_pdf_text"
           effectiveStartPage ==
               IF isRead /\ call[p].startPage = 0 THEN 1 ELSE call[p].startPage
           effectiveEndPage ==
               IF isRead /\ call[p].endPage = 0 THEN totalPages
               ELSE Min(call[p].endPage, totalPages)
       IN  IF ~c.ok
           THEN Fails(p, dir, c.error) /\ UNCHANGED loc
           ELSE /\ loc' = [loc EXCEPT ![p] =
                            [l EXCEPT !.totalPages = totalPages,
                                      !.startPage = effectiveStartPage,
                                      !.endPage = effectiveEndPage,
                                      !.snap = Snapshot(dir, l.filepath)]]
                /\ pc' = [pc EXCEPT ![p] = "text"]
                /\ UNCHANGED <<dir, res>>
    /\ UNCHANGED call

\* readPDFText ends; the handler answers (lines 469-486, 508-527).
TextDone(p) ==
    /\ pc[p] = "text"
    /\ LET l == loc[p]
           r == readPDFText(l.snap, l.filepath, l.startPage, l.endPage)
           step == IF call[p].name = "read_pdf_text" THEN 5 ELSE 10
           more == l.endPage < l.totalPages
       IN  IF ~r.ok THEN Fails(p, dir, r.error)
           ELSE Returns(p, dir,
                        [action |-> call[p].name, filepath |-> l.filepath,
                            totalPages |-> l.totalPages,
                            startPage |-> l.startPage, endPage |-> l.endPage,
                            hasMorePages |-> more,
                            nextPageRange |->
                                IF more
                                THEN <<l.endPage + 1, Min(l.endPage + step, l.totalPages)>>
                                ELSE <<>>,
                            text |-> r.text])
    /\ UNCHANGED <<call, loc>>

\* ---------------------------------------------------------------- download

\* new Error(`Failed to download PDF: ${error.message}`)
DownloadError(error) == Wrap("Failed to download PDF", error)

\* The isRetry argument of the recursive call (line 693).
RetryFlagWrong == FALSE

RetryFlag == TRUE

\* What the outer frame throws after the fallback download failed with
\* arxivError (lines 695-701): the error of its own, primary attempt.
RethrownWrong(primary, arxivError) == DownloadError(arxivError)

Rethrown(primary, arxivError) == DownloadError(primary)

\* downloadPDF returns filepath (line 678): download_pdf answers (lines
\* 372-386); download_and_read_pdf goes on to getPDFPageCount, which reads
\* the file (line 502).
DownloadReturns(p, files, filepath, fetched) ==
    IF call[p].name = "download_pdf"
    THEN /\ Returns(p, files, [action |-> "download_pdf", filepath |-> filepath])
         /\ loc' = [loc EXCEPT ![p].fetched = fetched]
         /\ UNCHANGED call
    ELSE /\ dir' = files
         /\ loc' = [loc EXCEPT ![p] =
                      [loc[p] EXCEPT !.filepath = filepath, !.fetched = fetched,
                                     !.snap = Snapshot(files, filepath)]]
         /\ pc' = [pc EXCEPT ![p] = "count"]
         /\ UNCHANGED <<call, res>>

\* The catch of downloadPDF (lines 680-702) for an attempt that failed with
\* error, filename being the local as the try block left it (fetched: the
\* bytes the GET brought, none when it failed).
Catch(p, files, error, filename, fetched) ==
    LET l == loc[p]
        paperTitle == extractTitleFromUrl(l.url, filename)
    IN  IF l.isRetry
        THEN \* the inner frame throws; the outer catch (arxivError) logs it
             /\ Fails(p, files, Rethrown(l.error, DownloadError(error)))
             /\ loc' = [loc EXCEPT ![p].fetched = fetched]
             /\ UNCHANGED call
        ELSE IF isPaywalledSource(l.url) /\ paperTitle # <<>>
        THEN /\ dir' = files
             /\ pc' = [pc EXCEPT ![p] = "query1"]
             /\ loc' = [loc EXCEPT ![p] =
                          [l EXCEPT !.filename = filename, !.error = error,
                                    !.title = paperTitle, !.queries = 1,
                                    !.fetched = fetched]]
             /\ UNCHANGED <<call, res>>
        ELSE /\ Fails(p, files, DownloadError(error))
             /\ loc' = [loc EXCEPT ![p] =
                          [l EXCEPT !.filename = filename, !.error = error,
                                    !.fetched = fetched]]
             /\ UNCHANGED call

\* download_pdf arrives: the handler calls downloadPDF, which issues the GET.
StartDownloadWith(p, urls, hints) ==
    /\ Idle(p)
    /\ \E url \in urls, hint \in hints :
          /\ call' = [call EXCEPT ![p] =
                        [NoCall EXCEPT !.name = "download_pdf", !.pdfUrl = url,
                                       !.filename = hint]]
          /\ loc' = [loc EXCEPT ![p] =
                       [NoLoc EXCEPT !.url = url, !.filename = hint, !.fetches = 1]]
    /\ pc' = [pc EXCEPT ![p] = "fetch"]
    /\ res' = [res EXCEPT ![p] = NoRes]
    /\ UNCHANGED dir

StartDownload(p) == StartDownloadWith(p, URLsOf(p), Hints)

\* download_and_read_pdf arrives (lines 490-499).
StartDownloadAndReadWith(p, urls, hints, startPages, endPages) ==
    /\ Idle(p)
    /\ p \in Readers
    /\ \E url \in urls, hint \in hints,
          startPage \in startPages, endPage \in endPages :
          /\ call' = [call EXCEPT ![p] =
                        [NoCall EXCEPT !.name = "download_and_read_pdf",
                                       !.pdfUrl = url, !.filename = hint,
                                       !.startPage = startPage, !.endPage = endPage]]
          /\ loc' = [loc EXCEPT ![p] =
                       [NoLoc EXCEPT !.url = url, !.filename = hint, !.fetches = 1]]
    /\ pc' = [pc EXCEPT ![p] = "fetch"]
    /\ res' = [res EXCEPT ![p] = NoRes]
    /\ UNCHANGED dir

\* startPage = 1 and endPage = 10 are the defaults of omitted arguments.
StartDownloadAndRead(p) == StartDownloadAndReadWith(p, URLs, Hints, {1}, {10})

\* axios.get of the PDF settles (line 632): the rest of the try block, or
\* the catch, runs to the next await or to the end of downloadPDF.
FetchDone(p) ==
    /\ pc[p] = "fetch"
    /\ LET l   == loc[p]
           hop == IF l.isRetry THEN 1 ELSE 0
       IN  \/ Catch(p, dir, [msg |-> <<"Request failed">>, hop |-> hop, path |-> <<>>],
                    l.filename, <<>>)
           \/ \E body \in Bodies, now \in Now :
                LET filename == ResolveFilename(l.url, l.filename, now)
                    data     == [bytes |-> body.bytes, ok |-> body.ok,
                                 pages |-> body.pages, plen |-> body.plen,
                                 by |-> p, hop |-> hop]
                    written  == WriteFile(dir, filename, data)
                IN  IF isValidPDF(written, filename)
                    THEN DownloadReturns(p, written, filename, body.bytes)
                    ELSE Catch(p, Unlink(written, filename),
                               [msg |-> <<"Downloaded file is not a valid PDF">>,
                                hop |-> hop, path |-> <<>>],
                               filename, body.bytes)

\* findPaperOnArxiv returned arxivPdfUrl (lines 690-694), l being the locals
\* of the call: null ends the recovery, a URL starts the recursive
\* downloadPDF, which issues its GET.
Resolved(p, l, arxivPdfUrl) ==
    IF arxivPdfUrl = <<>>
    THEN /\ Fails(p, dir, DownloadError(l.error))
         /\ loc' = [loc EXCEPT ![p] = l]
         /\ UNCHANGED call
    ELSE /\ pc' = [pc EXCEPT ![p] = "fetch"]
         /\ loc' = [loc EXCEPT ![p] =
                      [l EXCEPT !.url = arxivPdfUrl, !.isRetry = RetryFlag,
                                !.fetches = l.fetches + 1]]
         /\ UNCHANGED <<dir, call, res>>

\* The feed has no entry: !xmlData.feed || !xmlData.feed.entry (line 748).
NeedsSecondQueryWrong(outcome) == outcome.kind \in {"none", "failed"}

NeedsSecondQuery(outcome) == outcome.kind = "none"

\* What findPaperOnArxiv returns for the outcome of its last query: the href
\* of the first entry's application/pdf link, or null (lines 763-782).
QueryResult(outcome) == IF outcome.kind = "entry" THEN outcome.href ELSE <<>>

\* The first index query of findPaperOnArxiv settles (lines 745-784): no
\* entry, and the second query goes out; or findPaperOnArxiv returns.
Query1Done(p) ==
    /\ pc[p] = "query1"
    /\ \E outcome \in QueryOutcomes :
          LET l == [loc[p] EXCEPT !.outcomes = Append(loc[p].outcomes, outcome)]
          IN  IF NeedsSecondQuery(outcome)
              THEN /\ pc' = [pc EXCEPT ![p] = "query2"]
                   /\ loc' = [loc EXCEPT ![p] = [l EXCEPT !.queries = 2]]
                   /\ UNCHANGED <<dir, call, res>>
              ELSE Resolved(p, l, QueryResult(outcome))

\* The second index query settles (lines 759-770).
Query2Done(p) ==
    /\ pc[p] = "query2"
    /\ \E outcome \in QueryOutcomes :
          LET l == [loc[p] EXCEPT !.outcomes = Append(loc[p].outcomes, outcome)]
          IN  Resolved(p, l, QueryResult(outcome))

\* ------------------------------------------------------- list and cleanup

\* list_downloaded_pdfs (lines 530-547, 934-943).
ListDownloaded(p) ==
    /\ Idle(p)
    /\ p \in Readers
    /\ call' = [call EXCEPT ![p] = [NoCall EXCEPT !.name = "list_downloaded_pdfs"]]
    /\ loc' = [loc EXCEPT ![p] = NoLoc]
    /\ Returns(p, dir,
               [action |-> "list_downloaded_pdfs",
                files |-> {n \in DOMAIN dir : EndsWith(n, <<".","p","d","f">>)}])

\* files.forEach(file => fs.unlinkSync(...)) (lines 948-951)
RECURSIVE UnlinkAll(_, _)
UnlinkAll(files, names) ==
    IF names = {} THEN files
    ELSE LET n == CHOOSE m \in names : TRUE
         IN  UnlinkAll(Unlink(files, n), names \ {n})

\* A cleanup that stops after the first file.
cleanupDownloadsWrong(files) ==
    IF DOMAIN files = {} THEN files
    ELSE Unlink(files, CHOOSE m \in DOMAIN files : TRUE)

\* cleanupDownloads (lines 945-956): every name readdirSync lists is unlinked.
cleanupDownloads(files) == UnlinkAll(files, DOMAIN files)

\* cleanup_downloads (lines 549-563); removed is history, the files.length
\* that line 952 logs.
Cleanup(p) ==
    /\ Idle(p)
    /\ call' = [call EXCEPT ![p] = [NoCall EXCEPT !.name = "cleanup_downloads"]]
    /\ loc' = [loc EXCEPT ![p] = NoLoc]
    /\ Returns(p, cleanupDownloads(dir),
               [action |-> "cleanup_downloads", removed |-> Cardinality(DOMAIN dir)])

\* A tool name the switch does not know (lines 565-566).
UnknownTool(p) ==
    /\ Idle(p)
    /\ p \in Readers
    /\ call' = [call EXCEPT ![p] = [NoCall EXCEPT !.name = "unknown_tool"]]
    /\ loc' = [loc EXCEPT ![p] = NoLoc]
    /\ Fails(p, dir, [msg |-> <<"Unknown tool">>, hop |-> 0, path |-> <<>>])

\* ------------------------------------------------------------ specification

Next ==
    \E p \in Procs :
        \/ StartDownload(p)
        \/ StartDownloadAndRead(p)
        \/ FetchDone(p)
        \/ Query1Done(p)
        \/ Query2Done(p)
        \/ StartReadChunked(p)
        \/ OpenDone(p)
        \/ ChunkDone(p)
        \/ FallbackDone(p)
        \/ StartRead(p)
        \/ CountDone(p)
        \/ TextDone(p)
        \/ ListDownloaded(p)
        \/ Cleanup(p)
        \/ UnknownTool(p)

Spec == Init /\ [][Next]_vars

\* A call in progress of slot p takes its next step: the promise it awaits
\* settles and the event loop runs its continuation.
Step(p) ==
    \/ FetchDone(p)
    \/ Query1Done(p)
    \/ Query2Done(p)
    \/ OpenDone(p)
    \/ ChunkDone(p)
    \/ FallbackDone(p)
    \/ CountDone(p)
    \/ TextDone(p)

\* Every awaited promise settles (a GET has its timeout, a file read ends),
\* and the event loop then runs the continuation: no call in progress waits
\* forever for its next step.
FairSpec == Spec /\ \A p \in Procs : WF_vars(Step(p))

\* ------------------------------------------------ calls that run alone

\* One download_pdf at a time, into an empty directory, of every URL of
\* AnyURLs: the name a download resolves and the recovery it attempts do not
\* depend on the files of the directory.
StartDownloadAlone ==
    /\ dir = <<>>
    /\ StartDownloadWith(1, AnyURLs, AnyHints)

DownloadAloneNext ==
    \/ StartDownloadAlone
    \/ FetchDone(1)
    \/ Query1Done(1)
    \/ Query2Done(1)
    \/ Cleanup(1)

DownloadAloneSpec == Init /\ [][DownloadAloneNext]_vars

\* The file a download of body left, once the call has ended.
Stored(body) ==
    [bytes |-> body.bytes, ok |-> body.ok, pages |-> body.pages,
     plen |-> body.plen, by |-> 0, hop |-> 0]

\* The directory after a download of a document of one page or of MaxPages
\* pages to the path the reads ask for.
ReadAloneInit ==
    /\ dir \in {[n \in ReadPaths |-> Stored(Doc(k, SmallPage))] : k \in {1, MaxPages}}
    /\ call = [p \in Procs |-> NoCall]
    /\ pc = [p \in Procs |-> "idle"]
    /\ loc = [p \in Procs |-> NoLoc]
    /\ res = [p \in Procs |-> NoRes]

\* A non-chunked read_pdf_text with every page range of AnyPageArgs.
StartReadAlone == StartReadWith(1, AnyPageArgs)

\* A download_and_read_pdf of UrlPlain with every page range of
\* AnyPageArgs, and 10, the default of endPage.
StartDownloadAndReadAlone ==
    StartDownloadAndReadWith(1, {UrlPlain}, {NoName}, AnyPageArgs, AnyPageArgs \cup {10})

ReadAloneNext ==
    \/ StartReadAlone
    \/ StartDownloadAndReadAlone
    \/ FetchDone(1)
    \/ CountDone(1)
    \/ TextDone(1)

ReadAloneSpec == ReadAloneInit /\ [][ReadAloneNext]_vars

\* ------------------------------------------------------------------ claims

Downloading(p) == pc[p] \in {"fetch", "query1", "query2"}

\* The bytes pass isValidPDF when they are the contents of a file.
PassesValidation(bytes) == isValidPDF(<<[bytes |-> bytes]>>, 1)

\* Slot p has answered a chunked read with a chunk set.
ChunkSetAt(p) ==
    /\ pc[p] = "done"
    /\ call[p].name = "read_pdf_text"
    /\ call[p].chunked
    /\ ~res[p].isError
    /\ res[p].out.chunked

\* C1: a download issues at most two GETs for a PDF, and the recursive call
\* (isRetry = true) is the second one: it never waits for the index and so
\* never starts a third.
C1_AtMostOneFallbackHop ==
    \A p \in Procs :
        /\ loc[p].fetches <= 2
        /\ loc[p].isRetry => loc[p].fetches = 2 /\ pc[p] \notin {"query1", "query2"}
        /\ pc[p] \in {"query1", "query2"} => loc[p].fetches = 1

\* The fallback URL matched the paywall heuristic, its download failed, and
\* the call ended.
C1_Witness ==
    \E p \in Procs :
        /\ pc[p] = "done"
        /\ loc[p].isRetry
        /\ res[p].isError
        /\ isPaywalledSource(loc[p].url)

\* C2 (the claim): a chunked read of a file that stays an existing, parseable
\* PDF ends with a response.
C2_ChunkedReadResponds ==
    \A p \in Readers :
        (call[p].chunked /\ pc[p] \in {"open", "chunk", "fallback"})
            ~> (pc[p] = "done" \/ ~Snapshot(dir, call[p].filepath).ok)

\* C3 (the claim): a read of a path that stays absent ends, with the error
\* marker.
C3_MissingFileFails ==
    \A p \in Readers :
        (/\ call[p].name = "read_pdf_text"
         /\ pc[p] \in {"open", "chunk", "fallback", "count", "text"}
         /\ ~Snapshot(dir, call[p].filepath).exists)
            ~> (\/ pc[p] = "done" /\ res[p].isError
                \/ Snapshot(dir, call[p].filepath).exists)

\* C4 (the claim): whenever a request can run, every file of the directory
\* has a name ending in .pdf and contents that start with the four bytes %PDF.
C4_OnlyPdfFiles ==
    \A n \in DOMAIN dir :
        /\ EndsWith(n, <<".","p","d","f">>)
        /\ Len(dir[n].bytes) >= 4
        /\ SubSeq(dir[n].bytes, 1, 4) = PdfMagic

\* C5 (the claim): a file of the directory stays in it over every step that
\* is not a cleanup.
C5_OnlyCleanupDestroys ==
    [][(\E p \in Procs : Cleanup(p)) \/ DOMAIN dir \subseteq DOMAIN dir']_vars

\* C6: a download in progress has no file of its own in the directory at any
\* point where another request can run; a download_pdf that returned a path
\* left exactly one file it wrote, at that path; one that failed left none.
C6_OneFilePerDownload ==
    \A p \in Procs :
        /\ Downloading(p) => WrittenBy(dir, p) = {}
        /\ pc[p] = "done" /\ call[p].name = "download_pdf" =>
              IF res[p].isError
              THEN res[p].wrote = {}
              ELSE /\ Cardinality(res[p].wrote) = 1
                   /\ {w.name : w \in res[p].wrote} = {res[p].out.filepath}

\* The validator rejected the primary download and the fallback succeeded.
C6_Witness ==
    \E p \in Procs :
        /\ pc[p] = "done"
        /\ call[p].name = "download_pdf"
        /\ ~res[p].isError
        /\ loc[p].isRetry
        /\ loc[p].error.msg = <<"Downloaded file is not a valid PDF">>

\* The case of C7: the GET of a paywalled URL failed, the hint gives a title,
\* the index gave a URL, and the GET of that URL brought bytes that pass
\* validation.
C7_Case(p) ==
    /\ pc[p] = "done"
    /\ call[p].name = "download_pdf"
    /\ isPaywalledSource(call[p].pdfUrl)
    /\ loc[p].error.msg = <<"Request failed">>
    /\ call[p].filename # NoName
    /\ extractTitleFromUrl(call[p].pdfUrl, call[p].filename) # <<>>
    /\ loc[p].isRetry
    /\ PassesValidation(loc[p].fetched)

\* C7: in that case download_pdf returns a path, and the one file it left is
\* at that path and holds the bytes of the fallback GET.
C7_FallbackBytesAtPath ==
    \A p \in Procs :
        C7_Case(p) =>
            /\ ~res[p].isError
            /\ res[p].wrote = {[name |-> res[p].out.filepath, hop |-> 1]}

C7_Witness == \E p \in Procs : C7_Case(p)

\* C8: when the primary attempt failed and no fallback download succeeded,
\* the call ends with the error marker, whose message is "Failed to download
\* PDF: " and the message of the primary attempt's error; no path is returned.
C8_FailureWrapsPrimaryCause ==
    \A p \in Procs :
        (/\ pc[p] = "done"
         /\ call[p].name \in {"download_pdf", "download_and_read_pdf"}
         /\ loc[p].error # NoError
         /\ ~(loc[p].isRetry /\ PassesValidation(loc[p].fetched)))
        => /\ res[p].isError
           /\ res[p].out.action = "none"
           /\ loc[p].error.hop = 0
           /\ res[p].error = DownloadError(loc[p].error)

\* The fallback download failed too, after the validator rejected the first.
C8_Witness ==
    \E p \in Procs :
        /\ pc[p] = "done"
        /\ call[p].name = "download_pdf"
        /\ loc[p].isRetry
        /\ res[p].isError
        /\ loc[p].error.msg = <<"Downloaded file is not a valid PDF">>

C10_ChunkSetFitsBudget ==
    \A p \in Procs :
        ChunkSetAt(p) =>
            /\ JsonLength(res[p].out) <= 4 * maxTokens
            /\ res[p].out.chunkSize >= 1
            /\ res[p].out.chunkSize <= Min(call[p].chunkSize, 2)

\* A chunk set returned at chunk size 1 after the loop, started at 2, halved.
C10_Witness ==
    \E p \in Procs :
        /\ ChunkSetAt(p)
        /\ call[p].chunkSize = MaxChunk
        /\ res[p].out.chunkSize = 1

\* C11: a call that has ended has exactly one of two outcomes: the payload of
\* its tool and no error, or the error marker with a message and no payload.
C11_PayloadOrErrorMarker ==
    \A p \in Procs :
        pc[p] = "done" =>
            IF res[p].isError
            THEN res[p].out.action = "none" /\ res[p].error.msg # <<>>
            ELSE res[p].out.action = call[p].name /\ res[p].error = NoError

\* A download that failed, and a read whose page count failed.
C11_Witness ==
    \E p, q \in Procs :
        /\ pc[p] = "done" /\ pc[q] = "done"
        /\ call[p].name = "download_pdf" /\ res[p].isError
        /\ call[q].name = "read_pdf_text" /\ res[q].isError
        /\ res[q].error.msg[1] = "Failed to get PDF page count"

\* C12: every cleanup_downloads leaves the directory empty and answers with
\* its payload, never the error marker; on an empty directory it changes
\* nothing; and list_downloaded_pdfs on the directory it left lists no file.
C12_CleanupIdempotent ==
    [][\A p \in Procs :
          /\ Cleanup(p) =>
                /\ dir' = <<>>
                /\ ~res'[p].isError
                /\ res'[p].out.action = "cleanup_downloads"
                /\ dir = <<>> => dir' = dir
          /\ ListDownloaded(p) /\ dir = <<>> => res'[p].out.files = {}]_vars

\* A cleanup that removed two files, and another that found none.
C12_Witness ==
    \E p, q \in Procs :
        /\ pc[p] = "done" /\ pc[q] = "done"
        /\ call[p].name = "cleanup_downloads" /\ call[q].name = "cleanup_downloads"
        /\ res[p].out.removed = 2
        /\ res[q].out.removed = 0
        /\ dir = <<>>

\* A read_pdf_text that is not chunked, or a download_and_read_pdf, of slot p
\* has ended with its payload.
PagesReturnedAt(p) ==
    /\ pc[p] = "done"
    /\ call[p].name \in {"read_pdf_text", "download_and_read_pdf"}
    /\ ~call[p].chunked
    /\ ~res[p].isError

\* C13 (the claim): the range such a call reports satisfies
\* 1 <= startPage <= endPage <= totalPages; an omitted start of read_pdf_text
\* is reported as 1, an omitted end as totalPages, and an end beyond
\* totalPages as totalPages.
C13_PageRangeInOrder ==
    \A p \in Procs :
        PagesReturnedAt(p) =>
            LET o == res[p].out
                isRead == call[p].name = "read_pdf_text"
            IN  /\ 1 <= o.startPage
                /\ o.startPage <= o.endPage
                /\ o.endPage <= o.totalPages
                /\ isRead /\ call[p].startPage = 0 => o.startPage = 1
                /\ isRead /\ call[p].endPage = 0 => o.endPage = o.totalPages
                /\ call[p].endPage > o.totalPages => o.endPage = o.totalPages

\* C14 (the claim): a read_pdf_text with startPage > endPage that has ended
\* has failed or returned the text of no page.
C14_InvertedRangeEmpty ==
    \A p \in Procs :
        (/\ pc[p] = "done"
         /\ call[p].name = "read_pdf_text"
         /\ ~call[p].chunked
         /\ call[p].startPage > call[p].endPage)
        => res[p].isError \/ res[p].out.text.pages = <<>>

\* arxiv_2301.00001.pdf
ArxivPaperName ==
    <<"a","r","x","i","v","_","2","3","0","1",".","0","0","0","0","1",".","p","d","f">>

\* C15 (the claim): a download of https://arxiv.org/pdf/2301.00001 with no
\* filename hint that returns a path returns arxiv_2301.00001.pdf.
C15_ArxivFilename ==
    \A p \in Procs :
        (/\ pc[p] = "done"
         /\ call[p].name = "download_pdf"
         /\ call[p].pdfUrl = UrlArxivPaper
         /\ call[p].filename = NoName
         /\ ~res[p].isError)
        => res[p].out.filepath = ArxivPaperName

\* C16 (the claim): a download_pdf whose last GET brought the bytes b returns
\* a path, b having passed the validator, exactly when b has at least four
\* bytes and the first four are %PDF.
C16_ValidatorAcceptsExactlyPdf ==
    \A p \in Procs :
        (/\ pc[p] = "done"
         /\ call[p].name = "download_pdf"
         /\ loc[p].fetched # <<>>)
        => (~res[p].isError <=>
               /\ Len(loc[p].fetched) >= 4
               /\ SubSeq(loc[p].fetched, 1, 4) = PdfMagic)

NoTitleParam(url) ==
    /\ SearchParam(QueryOf(url), <<"t","i","t","l","e">>) = <<>>
    /\ SearchParam(QueryOf(url), <<"q">>) = <<>>
    /\ SearchParam(QueryOf(url), <<"q","u","e","r","y">>) = <<>>

\* C18 (the claim): a download_pdf with no filename hint of a paywalled URL
\* that has no title, q or query parameter and whose final path segment
\* holds a dot derives no title and issues no index query.
C18_NoHintNoTitle ==
    \A p \in Procs :
        (/\ call[p].name = "download_pdf"
         /\ call[p].filename = NoName
         /\ isPaywalledSource(call[p].pdfUrl)
         /\ NoTitleParam(call[p].pdfUrl)
         /\ Includes(LastPart(call[p].pdfUrl, "/"), <<".">>))
        => loc[p].title = <<>> /\ loc[p].queries = 0

\* The URL holds none of the paywalled-publisher domains.
NoKnownDomain(url) == \A domain \in paywalledDomains : ~Includes(url, domain)

\* C19: an index query is awaited only by a call that is not a retry and
\* whose URL holds a paywalled-publisher domain; a download of a URL that
\* holds none issues no index query and no second GET, and when its attempt
\* failed it ends with that attempt's error.
C19_ResolverOnlyForPaywalled ==
    \A p \in Procs :
        /\ pc[p] \in {"query1", "query2"} =>
              /\ ~loc[p].isRetry
              /\ loc[p].url = call[p].pdfUrl
              /\ ~NoKnownDomain(loc[p].url)
        /\ (/\ call[p].name \in {"download_pdf", "download_and_read_pdf"}
            /\ NoKnownDomain(call[p].pdfUrl)) =>
              /\ loc[p].queries = 0
              /\ loc[p].fetches <= 1
              /\ ~loc[p].isRetry
              /\ (pc[p] = "done" /\ loc[p].error # NoError) =>
                    /\ res[p].isError
                    /\ res[p].error = DownloadError(loc[p].error)

\* A failed download of a URL with no paywalled domain, under a hint that
\* would give a title.
C19_Witness ==
    \E p \in Procs :
        /\ pc[p] = "done"
        /\ call[p].name = "download_pdf"
        /\ NoKnownDomain(call[p].pdfUrl)
        /\ extractTitleFromUrl(call[p].pdfUrl, call[p].filename) # <<>>
        /\ res[p].isError
        /\ loc[p].error.msg = <<"Downloaded file is not a valid PDF">>

\* C20 (the claim): every page-1-only response of a chunked read is flagged
\* truncated and carries at most 80000 characters of text.
C20_FallbackIsTruncated ==
    \A p \in Procs :
        (/\ pc[p] = "done"
         /\ call[p].name = "read_pdf_text"
         /\ call[p].chunked
         /\ ~res[p].isError
         /\ ~res[p].out.chunked)
        => res[p].out.truncated /\ res[p].out.length <= TruncateAt

\* C21: in every successful non-chunked read_pdf_text and download_and_read_pdf
\* response, for every integer startPage and endPage the caller supplies,
\* hasMorePages is true exactly when the reported endPage is below totalPages;
\* when it is true the suggested next range [a, b] has a = endPage + 1 and
\* 1 <= a <= b <= totalPages; when it is false no next range is suggested.
C21_NextRangeInDocument ==
    \A p \in Procs :
        PagesReturnedAt(p) =>
            LET o == res[p].out
            IN  /\ o.hasMorePages <=> o.endPage < o.totalPages
                /\ o.hasMorePages =>
                       /\ Len(o.nextPageRange) = 2
                       /\ o.nextPageRange[1] = o.endPage + 1
                       /\ 1 <= o.nextPageRange[1]
                       /\ o.nextPageRange[1] <= o.nextPageRange[2]
                       /\ o.nextPageRange[2] <= o.totalPages
                /\ ~o.hasMorePages => o.nextPageRange = <<>>

\* A name that ends with .pdf and has only characters of [A-Za-z0-9._-]: no
\* separator, so the path joined from it is a direct child of the directory.
SafeName(n) ==
    /\ Len(n) >= 4
    /\ SubSeq(n, Len(n) - 3, Len(n)) = <<".","p","d","f">>
    /\ \A i \in 1..Len(n) :
          n[i] \in SafeChars /\ n[i] # "/" /\ n[i] # "\\"

\* The hint of the call in slot p has a path separator or a parent reference.
UnsafeHint(p) ==
    \E i \in 1..Len(call[p].filename) :
        \/ call[p].filename[i] = "/"
        \/ /\ i < Len(call[p].filename)
           /\ call[p].filename[i] = "."
           /\ call[p].filename[i + 1] = "."

\* C22: for every url and every filename hint (hints with path separators or
\* .. among them), the name under which a download writes its bytes ends with
\* .pdf and has only characters of [A-Za-z0-9._-]: every file of the storage
\* directory, every name a call wrote under, and the name of a file that was
\* written and unlinked as invalid.
C22_WrittenNameIsSafe ==
    /\ \A n \in DOMAIN dir : SafeName(n)
    /\ \A p \in Procs :
          /\ \A w \in res[p].wrote : SafeName(w.name)
          /\ loc[p].error.msg = <<"Downloaded file is not a valid PDF">>
                => SafeName(loc[p].filename)
          /\ (pc[p] = "done" /\ call[p].name = "download_pdf" /\ ~res[p].isError)
                => SafeName(res[p].out.filepath)

\* A download with a hint that has a separator ended with its file stored.
C22_UnsafeHintStored ==
    /\ pc[1] = "done"
    /\ call[1].name = "download_pdf"
    /\ UnsafeHint(1)
    /\ ~res[1].isError
    /\ res[1].out.filepath \in DOMAIN dir
    /\ \E w \in res[1].wrote : w.name = res[1].out.filepath

\* The error of a reader that found no file at the path.
FileNotFound(error) ==
    /\ Len(error.msg) >= 2
    /\ error.msg[Len(error.msg)] = "PDF file not found"

\* C23: with two or more tool invocations interleaved at their suspension
\* points, the totalPages and the text that a successful download_and_read_pdf
\* returns both come from the bytes this same call fetched (the text is the
\* text of a document of totalPages pages, read from the file as this call
\* wrote it), and the call does not fail with file-not-found after its own
\* download succeeded, whatever a concurrent download to the same name or a
\* concurrent cleanup does.
C23_ReadsOwnDownload ==
    \A p \in Procs :
        (pc[p] = "done" /\ call[p].name = "download_and_read_pdf") =>
            /\ ~res[p].isError =>
                  /\ res[p].out.text.of = res[p].out.totalPages
                  /\ res[p].out.text.by = p
            /\ (res[p].isError /\ loc[p].filepath # <<>>) =>
                  ~FileNotFound(res[p].error)

\* The part of C23 on the page count alone: the text a successful
\* download_and_read_pdf returns is of a document of totalPages pages.
C23_TextOfCountedDocument ==
    \A p \in Procs :
        (pc[p] = "done" /\ call[p].name = "download_and_read_pdf" /\ ~res[p].isError)
            => res[p].out.text.of = res[p].out.totalPages

\* The part of C23 on the missing file: no file-not-found after the call's
\* own download succeeded.
C23_NoMissingFileAfterDownload ==
    \A p \in Procs :
        (pc[p] = "done" /\ call[p].name = "download_and_read_pdf"
            /\ res[p].isError /\ loc[p].filepath # <<>>)
            => ~FileNotFound(res[p].error)

\* C24: in every successful non-chunked read_pdf_text and
\* download_and_read_pdf response, the returned text holds exactly the pages
\* of the reported range startPage..endPage, in ascending order, each page
\* once under its marker; it never has a page above the reported endPage,
\* for any integer endPage the caller supplies, 0 among them.
C24_TextIsReportedRange ==
    \A p \in Procs :
        PagesReturnedAt(p) =>
            LET o == res[p].out
            IN  /\ Len(o.text.pages) = Max(0, o.endPage - o.startPage + 1)
                /\ \A i \in 1..Len(o.text.pages) :
                      o.text.pages[i] = o.startPage + i - 1
                /\ \A i \in 1..Len(o.text.pages) : o.text.pages[i] <= o.endPage

====
